---- MODULE Spec2Model ----
(***************************************************************************)
(* Personal Finance Tracker (src/financetracker.c): the transaction store  *)
(* txs/txCount, the backing file finance_data.txt, and the menu handlers   *)
(* that change them.  Text is a sequence of one-character strings, so that *)
(* fprintf's formatting and sscanf's scanning are modelled by what they do *)
(* to characters.  Amounts are doubles in the program; here an amount is   *)
(* an integer number of thousandths (12346 is 12.346).                     *)
(***************************************************************************)
EXTENDS Integers, Sequences, FiniteSets, TLC

VARIABLES
    pc,     \* where the program is: "start" (main, before the startup load),
            \* "menu" (waiting in menu()), "save" (inside save_to_file's loop)
    txs,    \* txs[0..txCount-1] as a sequence of Transaction records
    file,   \* finance_data.txt: [exists, lines]; each line ends in '\n'
    out,    \* what the last handler printed: [msg, year, sums]
    si      \* save_to_file's loop variable i (0 outside the loop)

vars == <<pc, txs, file, out, si>>

(***************************************************************************)
(* Program constants.  MAX_TRANSACTIONS is 2000 in the source; the model   *)
(* scales it down so that the full store is reachable.                     *)
(***************************************************************************)
MAX_TRANSACTIONS == 3
STR_LEN == 64
NOTE_LEN == 128
LINE_LEN == 512
INCOME == 0
EXPENSE == 1

txCount == Len(txs)

Transaction(y, m, d, type, category, amount, note) ==
    [y |-> y, m |-> m, d |-> d, type |-> type, category |-> category,
     amount |-> amount, note |-> note]

(***************************************************************************)
(* Characters.                                                             *)
(***************************************************************************)
Digits == <<"0", "1", "2", "3", "4", "5", "6", "7", "8", "9">>

IsDigit(c) == c \in {"0", "1", "2", "3", "4", "5", "6", "7", "8", "9"}

DigitVal(c) ==
    CASE c = "0" -> 0 [] c = "1" -> 1 [] c = "2" -> 2 [] c = "3" -> 3 [] c = "4" -> 4
      [] c = "5" -> 5 [] c = "6" -> 6 [] c = "7" -> 7 [] c = "8" -> 8 [] c = "9" -> 9

DigitChar(n) == Digits[n + 1]

\* isspace() of the C locale, on the characters a text file holds
IsSpace(c) == c \in {" ", "\t", "\n", "\r"}

Take(s, n) == IF Len(s) <= n THEN s ELSE SubSeq(s, 1, n)

Rep(c, n) == [k \in 1..n |-> c]

(***************************************************************************)
(* printf conversions used by save_to_file.                                *)
(***************************************************************************)
RECURSIVE FmtNat(_)
FmtNat(n) ==
    IF n < 10 THEN <<DigitChar(n)>>
    ELSE FmtNat(n \div 10) \o <<DigitChar(n % 10)>>

\* "%d"
FmtInt(n) == IF n < 0 THEN <<"-">> \o FmtNat(-n) ELSE FmtNat(n)

\* The hundredths "%.2f" prints for an amount of a thousandths: the nearest
\* hundredth.  (An exact decimal tie, a % 10 = 5, is decided by the binary
\* value of the double; the amounts of this model are never ties.)
RoundCents(a) == (a + 5) \div 10

\* "%.2f" of a non-negative amount
FmtAmount(a) ==
    LET c == RoundCents(a)
    IN  FmtNat(c \div 100) \o <<".", DigitChar((c \div 10) % 10), DigitChar(c % 10)>>

\* fprintf(f, "%d|%d|%d|%d|%s|%.2f|%s\n", ...): one line of the file
fprintf_line(t) ==
    FmtInt(t.y) \o <<"|">> \o FmtInt(t.m) \o <<"|">> \o FmtInt(t.d) \o <<"|">>
    \o FmtInt(t.type) \o <<"|">> \o t.category \o <<"|">>
    \o FmtAmount(t.amount) \o <<"|">> \o t.note \o <<"\n">>

\* what save_to_file writes when every fprintf succeeds
SerializeAll(store) == [k \in 1..Len(store) |-> fprintf_line(store[k])]

(***************************************************************************)
(* sscanf conversions used by load_from_file.  A scan works on a line s    *)
(* from position i and yields [ok, val, pos]: whether the conversion       *)
(* matched, its value, and the position after what it consumed.            *)
(***************************************************************************)
RECURSIVE SkipWs(_, _)
SkipWs(s, i) == IF i <= Len(s) /\ IsSpace(s[i]) THEN SkipWs(s, i + 1) ELSE i

RECURSIVE DigitsEnd(_, _)
DigitsEnd(s, i) == IF i <= Len(s) /\ IsDigit(s[i]) THEN DigitsEnd(s, i + 1) ELSE i

\* the number written by the digits s[i..j-1]
RECURSIVE DigitsVal(_, _, _)
DigitsVal(s, i, j) ==
    IF j <= i THEN 0 ELSE 10 * DigitsVal(s, i, j - 1) + DigitVal(s[j - 1])

SignEnd(s, i) == IF i <= Len(s) /\ s[i] \in {"+", "-"} THEN i + 1 ELSE i

SignOf(s, i) == IF i <= Len(s) /\ s[i] = "-" THEN -1 ELSE 1

\* "%d": white space, an optional sign, one or more digits
ScanInt(s, i) ==
    LET a == SkipWs(s, i)
        b == SignEnd(s, a)
        e == DigitsEnd(s, b)
    IN  IF e = b THEN [ok |-> FALSE, val |-> 0, pos |-> i]
        ELSE [ok |-> TRUE, val |-> SignOf(s, a) * DigitsVal(s, b, e), pos |-> e]

\* "%lf" on decimal text: white space, an optional sign, digits with an optional
\* fraction; the value in thousandths (a fraction is read to three digits)
ScanDouble(s, i) ==
    LET a == SkipWs(s, i)
        b == SignEnd(s, a)
        e == DigitsEnd(s, b)
        f == IF e <= Len(s) /\ s[e] = "." THEN e + 1 ELSE e
        g == DigitsEnd(s, f)
        n == IF g - f > 3 THEN 3 ELSE g - f
        frac == CASE n = 0 -> 0
                  [] n = 1 -> 100 * DigitsVal(s, f, f + 1)
                  [] n = 2 -> 10 * DigitsVal(s, f, f + 2)
                  [] OTHER -> DigitsVal(s, f, f + 3)
    IN  IF e = b /\ g = f THEN [ok |-> FALSE, val |-> 0, pos |-> i]
        ELSE [ok |-> TRUE,
              val |-> SignOf(s, a) * (1000 * DigitsVal(s, b, e) + frac),
              pos |-> g]

\* a literal character of the format
ScanLit(s, i, c) == i <= Len(s) /\ s[i] = c

\* "%<width>[^stop]": one or more characters other than stop, at most width
RECURSIVE ScanSetEnd(_, _, _, _)
ScanSetEnd(s, i, stop, width) ==
    IF width > 0 /\ i <= Len(s) /\ s[i] # stop
    THEN ScanSetEnd(s, i + 1, stop, width - 1)
    ELSE i

ScanSet(s, i, stop, width) ==
    LET e == ScanSetEnd(s, i, stop, width)
    IN  IF e = i THEN [ok |-> FALSE, val |-> <<>>, pos |-> i]
        ELSE [ok |-> TRUE, val |-> SubSeq(s, i, e - 1), pos |-> e]

\* one directive of a scanf format: a conversion ("d", "lf", "set") or a
\* literal character ("lit")
Conv(kind) == [kind |-> kind, c |-> "", width |-> 0]
Lit(c) == [kind |-> "lit", c |-> c, width |-> 0]
SetUntil(stop, width) == [kind |-> "set", c |-> stop, width |-> width]

\* "%d|%d|%d|%d|%63[^|]|%lf|%127[^\n]"
LoadFormat ==
    << Conv("d"), Lit("|"), Conv("d"), Lit("|"), Conv("d"), Lit("|"), Conv("d"),
       Lit("|"), SetUntil("|", STR_LEN - 1), Lit("|"), Conv("lf"), Lit("|"),
       SetUntil("\n", NOTE_LEN - 1) >>

Convert(dir, s, i) ==
    CASE dir.kind = "d" -> ScanInt(s, i)
      [] dir.kind = "lf" -> ScanDouble(s, i)
      [] OTHER -> ScanSet(s, i, dir.c, dir.width)

\* sscanf(s, fmt, ...) from directive k on, at position i of s, with the values
\* vals converted so far: it stops at the first directive that does not match
\* and returns the values it has assigned
RECURSIVE sscanf(_, _, _, _, _)
sscanf(s, i, fmt, k, vals) ==
    IF k > Len(fmt) THEN vals
    ELSE IF fmt[k].kind = "lit"
    THEN (IF ScanLit(s, i, fmt[k].c) THEN sscanf(s, i + 1, fmt, k + 1, vals) ELSE vals)
    ELSE LET r == Convert(fmt[k], s, i)
         IN  IF r.ok THEN sscanf(s, r.pos, fmt, k + 1, Append(vals, r.val))
             ELSE vals

\* the k-th variable after the call: what sscanf assigned, or the zero it was
\* initialised with
Assigned(vals, k, zero) == IF k <= Len(vals) THEN vals[k] ELSE zero

\* strncpy(dst, src, n) into a zeroed dst of n + 1 bytes
strncpy(src, n) == Take(src, n)

valid_date(y, m, d) ==
    LET leap == (y % 4 = 0 /\ y % 100 # 0) \/ (y % 400 = 0)
        mdays == <<31, IF leap THEN 29 ELSE 28, 31, 30, 31, 30, 31, 31, 30, 31, 30, 31>>
    IN  IF y < 1900 \/ y > 3000 THEN FALSE
        ELSE IF m < 1 \/ m > 12 THEN FALSE
        ELSE IF d < 1 \/ d > mdays[m] THEN FALSE
        ELSE TRUE

\* load_from_file's test of a parsed record, with a mutant that forgets the amount
keep_record_any_amount(t) == valid_date(t.y, t.m, t.d)

keep_record(t) == valid_date(t.y, t.m, t.d) /\ t.amount >= 0

\* fgets(line, sizeof(line), f) over one '\n'-terminated line of the file: the
\* pieces it returns, each at most LINE_LEN - 1 characters
RECURSIVE fgets_pieces(_)
fgets_pieces(s) ==
    IF Len(s) <= LINE_LEN - 1 THEN <<s>>
    ELSE <<SubSeq(s, 1, LINE_LEN - 1)>> \o fgets_pieces(SubSeq(s, LINE_LEN, Len(s)))

RECURSIVE fgets_all(_)
fgets_all(lines) ==
    IF lines = <<>> THEN <<>>
    ELSE fgets_pieces(Head(lines)) \o fgets_all(Tail(lines))

\* the body of load_from_file's while loop for one piece, on the records
\* acc = txs[0..n-1] accepted so far
load_line(acc, line) ==
    LET vals == sscanf(line, 1, LoadFormat, 1, <<>>)
        t == Transaction(Assigned(vals, 1, 0), Assigned(vals, 2, 0), Assigned(vals, 3, 0),
                         IF Assigned(vals, 4, 0) = 1 THEN EXPENSE ELSE INCOME,
                         strncpy(Assigned(vals, 5, <<>>), STR_LEN - 1),
                         Assigned(vals, 6, 0),
                         IF Len(vals) = 7 THEN strncpy(vals[7], NOTE_LEN - 1) ELSE <<>>)
    IN  IF Len(vals) >= 6 /\ keep_record(t) /\ Len(acc) < MAX_TRANSACTIONS
        THEN Append(acc, t)
        ELSE acc

RECURSIVE load_loop(_, _)
load_loop(acc, pieces) ==
    IF pieces = <<>> THEN acc
    ELSE load_loop(load_line(acc, Head(pieces)), Tail(pieces))

\* the store load_from_file leaves when fopen succeeds
load_result(lines) == load_loop(<<>>, fgets_all(lines))

(***************************************************************************)
(* Console input.  What the user types at a prompt is a sequence of        *)
(* entries; read_int and read_double ask again until one is acceptable.    *)
(***************************************************************************)
RECURSIVE read_int(_, _, _)
read_int(typed, minV, maxV) ==
    IF Head(typed) >= minV /\ Head(typed) <= maxV THEN Head(typed)
    ELSE read_int(Tail(typed), minV, maxV)

\* read_int returns only once an entry is in range
Answers(typed, minV, maxV) ==
    \E k \in 1..Len(typed) : typed[k] >= minV /\ typed[k] <= maxV

RECURSIVE read_double(_, _)
read_double(typed, minV) ==
    IF Head(typed) >= minV THEN Head(typed) ELSE read_double(Tail(typed), minV)

AnswersDouble(typed, minV) == \E k \in 1..Len(typed) : typed[k] >= minV

\* the for loops of add_transaction that replace '|' by '/'
ReplacePipes(s) == [k \in 1..Len(s) |-> IF s[k] = "|" THEN "/" ELSE s[k]]

\* add_transaction's test of the amount, with a mutant that lets zero through
amount_negative(amount) == amount < 0

amount_not_positive(amount) == amount <= 0

\* delete_by_index's loop txs[i] = txs[i+1] and txCount--, with a mutant that
\* only decrements txCount
remove_last(arr, idx) == SubSeq(arr, 1, Len(arr) - 1)

remove_at(arr, idx) ==
    [k \in 1..(Len(arr) - 1) |-> IF k < idx + 1 THEN arr[k] ELSE arr[k + 1]]

Msg(m) == [msg |-> m, year |-> 0, sums |-> <<>>]

(***************************************************************************)
(* Sorting.  qsort leaves the order of elements that compare equal         *)
(* unspecified: its result is any arrangement of the array that the        *)
(* comparison function finds in order.                                     *)
(***************************************************************************)
cmp_date(x, y) ==
    IF x.y # y.y THEN (IF x.y < y.y THEN -1 ELSE 1)
    ELSE IF x.m # y.m THEN (IF x.m < y.m THEN -1 ELSE 1)
    ELSE IF x.d # y.d THEN (IF x.d < y.d THEN -1 ELSE 1)
    ELSE 0

cmp_amount_desc(x, y) ==
    IF x.amount < y.amount THEN 1
    ELSE IF x.amount > y.amount THEN -1
    ELSE 0

\* every order in which the first n elements of arr can be arranged
RECURSIVE Arrangements(_, _)
Arrangements(arr, n) ==
    IF n = 0 THEN {<<>>}
    ELSE {SubSeq(r, 1, k) \o <<arr[n]>> \o SubSeq(r, k + 1, n - 1) :
              r \in Arrangements(arr, n - 1), k \in 0..(n - 1)}

\* the call of the comparison function qsort was given, named by cmp
compar(cmp, x, y) ==
    IF cmp = "cmp_date" THEN cmp_date(x, y) ELSE cmp_amount_desc(x, y)

qsort(arr, cmp) ==
    {r \in Arrangements(arr, Len(arr)) :
        \A a, b \in 1..Len(arr) : a < b => compar(cmp, r[a], r[b]) <= 0}

(***************************************************************************)
(* monthly_spending_chart's sums[1..12] for a year.                        *)
(***************************************************************************)
RECURSIVE MonthSum(_, _, _, _)
MonthSum(store, n, year, m) ==
    IF n = 0 THEN 0
    ELSE MonthSum(store, n - 1, year, m)
         + (IF store[n].type = EXPENSE /\ store[n].y = year
               /\ store[n].m >= 1 /\ store[n].m <= 12 /\ store[n].m = m
            THEN store[n].amount ELSE 0)

ChartSums(store, year) == [m \in 1..12 |-> MonthSum(store, Len(store), year, m)]

MaxOf(sums) == CHOOSE v \in {0} \cup {sums[m] : m \in 1..12} :
                   \A m \in 1..12 : sums[m] <= v

(***************************************************************************)
(* The inputs of the model: what is typed at the prompts, and what         *)
(* finance_data.txt holds when the program starts.                         *)
(***************************************************************************)
TxtF == <<"F">>
TxtSalary == <<"S", "a", "l", "a", "r", "y">>
TxtMisc == <<"M", "i", "s", "c">>
TxtAB == <<"a", "|", "b">>
Txt1235 == <<"1", "2", ".", "3", "5">>

Typed(y, m, d, t, category, amount, note) ==
    [y |-> y, m |-> m, d |-> d, t |-> t, category |-> category,
     amount |-> amount, note |-> note]

AddInputs ==
    { Typed(<<2025>>, <<1>>, <<15>>, <<1>>, TxtF, <<12346>>, <<>>),
      Typed(<<2024>>, <<2>>, <<29>>, <<0>>, <<>>, <<12350>>, TxtAB),
      Typed(<<1800, 2025>>, <<2>>, <<29>>, <<1>>, TxtF, <<12350>>, <<>>),
      Typed(<<2025>>, <<13, 1>>, <<15>>, <<2, 1>>, TxtF, <<-1, 0>>, <<>>) }

ChartYears == {<<2024>>, <<1, 2025>>}

SortChoices == {<<1>>, <<3, 2>>}

\* what can be typed at "Index to delete: " with n transactions stored
DeleteInputs(n) ==
    IF n = 0 THEN {<<0>>}
    ELSE {<<i>> : i \in 0..(n - 1)} \cup {<<-1, 0>>, <<n, n - 1>>}

\* a line of the file from its fields, each already text
FileLine(y, m, d, kind, category, amount, note) ==
    y \o <<"|">> \o m \o <<"|">> \o d \o <<"|">> \o kind \o <<"|">> \o category
    \o <<"|">> \o amount \o <<"|">> \o note \o <<"\n">>

Line1235 == FileLine(<<"2","0","2","5">>, <<"1">>, <<"1","5">>, <<"1">>, TxtF, Txt1235, <<>>)
LineZero == FileLine(<<"2","0","2","5">>, <<"2">>, <<"1">>, <<"1">>, TxtF, <<"0",".","0","0">>, TxtAB)
LineGarbage == <<"a","b","c","|","g","a","r","b","a","g","e","\n">>
LineBadDate == FileLine(<<"2","0","2","5">>, <<"2">>, <<"3","0">>, <<"1">>, TxtF, Txt1235, <<"x">>)
LineNegative == FileLine(<<"2","0","2","5">>, <<"1">>, <<"1","5">>, <<"1">>, TxtF, <<"-","1",".","0","0">>, <<"x">>)
LineFiveFields == <<"2","0","2","5","|","1","|","1","5","|","1","|","F","\n">>
LineSixFields == <<" ","2","0","2","5","|","+","1","|","1","5","|","1","|","F","|","1","2",".","3","5","\n">>
LineKind5 == FileLine(<<"2","0","2","4">>, <<"2">>, <<"2","9">>, <<"5">>, TxtSalary, Txt1235, <<"a","/","b">>)
LineLongCategory == FileLine(<<"2","0","2","5">>, <<"1">>, <<"1","5">>, <<"1">>, Rep("c", STR_LEN), Txt1235, <<>>)
LineOverlong == Rep("x", LINE_LEN - 1) \o Line1235

NoFile == [exists |-> FALSE, lines |-> <<>>]

FileOf(lines) == [exists |-> TRUE, lines |-> lines]

\* the files the program may find when it starts: none, one with lines that
\* are not records among lines that are, one with more records than the store
\* holds
InitFiles ==
    { NoFile,
      FileOf(<<LineZero, LineGarbage, Line1235, LineBadDate, LineNegative>>),
      FileOf(<<LineSixFields, LineKind5>> \o Rep(Line1235, MAX_TRANSACTIONS)) }

\* the files of the specification of loading alone: every file of at most
\* MaxFileLines lines drawn from LoadLines, and one with too many records
MaxFileLines == 2

LoadLines ==
    { Line1235, LineZero, LineGarbage, LineBadDate, LineNegative, LineFiveFields,
      LineSixFields, LineKind5, LineLongCategory, LineOverlong }

LoadFiles ==
    {NoFile} \cup {FileOf(Rep(Line1235, MAX_TRANSACTIONS + 1))}
    \cup {FileOf(ls) : ls \in UNION {[1..n -> LoadLines] : n \in 0..MaxFileLines}}

(***************************************************************************)
(* The program.                                                            *)
(***************************************************************************)
Init ==
    /\ pc = "start"
    /\ txs = <<>>
    /\ file \in InitFiles
    /\ out = Msg("")
    /\ si = 0

\* load_from_file(FILE_NAME): fopen fails when the file is absent, and may fail
\* when it is present (openOk)
load_from_file(openOk) ==
    IF file.exists /\ openOk
    THEN txs' = load_result(file.lines)
    ELSE txs' = txs

\* main(): the startup load, its result ignored, then the welcome line
main(openOk) ==
    /\ pc = "start"
    /\ load_from_file(openOk)
    /\ out' = Msg("Welcome!")
    /\ pc' = "menu"
    /\ UNCHANGED <<file, si>>

\* menu(), case 7
menu_load(openOk) ==
    /\ pc = "menu"
    /\ load_from_file(openOk)
    /\ out' = IF file.exists /\ openOk THEN Msg("Loaded") ELSE Msg("Load failed.")
    /\ UNCHANGED <<pc, file, si>>

add_transaction(in) ==
    /\ pc = "menu"
    /\ IF txCount >= MAX_TRANSACTIONS
       THEN out' = Msg("Storage full.") /\ txs' = txs
       ELSE /\ Answers(in.y, 1900, 3000) /\ Answers(in.m, 1, 12)
            /\ Answers(in.d, 1, 31)
            /\ LET y == read_int(in.y, 1900, 3000)
                   m == read_int(in.m, 1, 12)
                   d == read_int(in.d, 1, 31)
               IN  IF ~valid_date(y, m, d)
                   THEN out' = Msg("Invalid date.") /\ txs' = txs
                   ELSE /\ Answers(in.t, 0, 1) /\ AnswersDouble(in.amount, 0)
                        /\ LET t == read_int(in.t, 0, 1)
                               category ==
                                   IF in.category = <<>>
                                   THEN (IF t = INCOME THEN TxtSalary ELSE TxtMisc)
                                   ELSE in.category
                               amount == read_double(in.amount, 0)
                           IN  IF amount_not_positive(amount)
                               THEN out' = Msg("Amount must be positive.") /\ txs' = txs
                               ELSE /\ txs' = Append(txs,
                                          Transaction(y, m, d, t,
                                              strncpy(ReplacePipes(category), STR_LEN - 1),
                                              amount,
                                              strncpy(ReplacePipes(in.note), NOTE_LEN - 1)))
                                    /\ out' = Msg("Transaction added.")
    /\ UNCHANGED <<pc, file, si>>

sort_menu(choice) ==
    /\ pc = "menu"
    /\ IF txCount = 0
       THEN out' = Msg("No transactions to sort.") /\ txs' = txs
       ELSE /\ Answers(choice, 1, 2)
            /\ LET c == read_int(choice, 1, 2)
               IN  IF c = 1 THEN txs' \in qsort(txs, "cmp_date")
                   ELSE txs' \in qsort(txs, "cmp_amount_desc")
            /\ out' = Msg("Sorted.")
    /\ UNCHANGED <<pc, file, si>>

monthly_spending_chart(typedYear) ==
    /\ pc = "menu"
    /\ IF txCount = 0
       THEN out' = Msg("No data.")
       ELSE /\ Answers(typedYear, 1900, 3000)
            /\ LET year == read_int(typedYear, 1900, 3000)
                   sums == ChartSums(txs, year)
               IN  IF MaxOf(sums) = 0
                   THEN out' = [msg |-> "No expenses recorded", year |-> year, sums |-> <<>>]
                   ELSE out' = [msg |-> "Chart", year |-> year, sums |-> sums]
    /\ UNCHANGED <<pc, txs, file, si>>

delete_by_index(typed) ==
    /\ pc = "menu"
    /\ IF txCount = 0
       THEN out' = Msg("No data.") /\ txs' = txs
       ELSE /\ Answers(typed, 0, txCount - 1)
            /\ LET idx == read_int(typed, 0, txCount - 1)
               IN  txs' = remove_at(txs, idx)
            /\ out' = Msg("Deleted.")
    /\ UNCHANGED <<pc, file, si>>

\* menu(), case 6, up to save_to_file's fopen(fname, "w"), which empties the
\* file or fails; on failure "Save failed." is printed
save_open(openOk) ==
    /\ pc = "menu"
    /\ IF openOk
       THEN /\ file' = FileOf(<<>>)
            /\ pc' = "save"
            /\ out' = Msg("")
       ELSE /\ out' = Msg("Save failed.")
            /\ UNCHANGED <<pc, file>>
    /\ si' = 0
    /\ UNCHANGED txs

\* one turn of save_to_file's loop: fprintf writes record i or fails (wrote);
\* its result is not looked at
save_write(wrote) ==
    /\ pc = "save"
    /\ si < txCount
    /\ file' = IF wrote THEN FileOf(Append(file.lines, fprintf_line(txs[si + 1])))
               ELSE file
    /\ si' = si + 1
    /\ UNCHANGED <<pc, txs, out>>

\* the end of the loop: fclose, return 1, and menu() prints "Saved"
save_close ==
    /\ pc = "save"
    /\ si >= txCount
    /\ pc' = "menu"
    /\ si' = 0
    /\ out' = Msg("Saved")
    /\ UNCHANGED <<txs, file>>

Next ==
    \/ \E openOk \in BOOLEAN : main(openOk)
    \/ \E openOk \in BOOLEAN : menu_load(openOk)
    \/ \E in \in AddInputs : add_transaction(in)
    \/ \E choice \in SortChoices : sort_menu(choice)
    \/ \E typedYear \in ChartYears : monthly_spending_chart(typedYear)
    \/ \E typed \in DeleteInputs(txCount) : delete_by_index(typed)
    \/ \E openOk \in BOOLEAN : save_open(openOk)
    \/ \E wrote \in BOOLEAN : save_write(wrote)
    \/ save_close

Spec == Init /\ [][Next]_vars

(***************************************************************************)
(* Loading alone: the program started on any of LoadFiles, and the menu's  *)
(* load.                                                                   *)
(***************************************************************************)
InitLoad ==
    /\ pc = "start"
    /\ txs = <<>>
    /\ file \in LoadFiles
    /\ out = Msg("")
    /\ si = 0

NextLoad ==
    \/ \E openOk \in BOOLEAN : main(openOk)
    \/ \E openOk \in BOOLEAN : menu_load(openOk)

SpecLoad == InitLoad /\ [][NextLoad]_vars

(***************************************************************************)
(* The properties.  They are stated with definitions of their own (the     *)
(* calendar, a stable sort, the per-month totals), not with the operators  *)
(* that model the handlers.                                                *)
(***************************************************************************)
IsLeap(y) == (y % 4 = 0 /\ y % 100 # 0) \/ y % 400 = 0

DaysIn(y, m) ==
    CASE m \in {4, 6, 9, 11} -> 30
      [] m = 2 -> (IF IsLeap(y) THEN 29 ELSE 28)
      [] OTHER -> 31

CalendarValid(y, m, d) ==
    y \in 1900..3000 /\ m \in 1..12 /\ d \in 1..DaysIn(y, m)

HasPipe(text) == \E k \in 1..Len(text) : text[k] = "|"

\* saving a store in full and loading what was written gives the store back
RoundTrips(store) == load_result(SerializeAll(store)) = store

\* the record a whole line of the file stands for, if it stands for one
LineFields(line) == sscanf(line, 1, LoadFormat, 1, <<>>)

LineAccepted(line) ==
    /\ Len(LineFields(line)) >= 6
    /\ CalendarValid(LineFields(line)[1], LineFields(line)[2], LineFields(line)[3])
    /\ LineFields(line)[6] >= 0

RECURSIVE AcceptedLines(_)
AcceptedLines(lines) ==
    IF lines = <<>> THEN <<>>
    ELSE (IF LineAccepted(Head(lines)) THEN <<Head(lines)>> ELSE <<>>)
         \o AcceptedLines(Tail(lines))

\* x does not come after y under sort choice c: 1 is by date ascending, 2 by
\* amount descending
NotAfter(c, x, y) ==
    IF c = 1
    THEN 10000 * x.y + 100 * x.m + x.d <= 10000 * y.y + 100 * y.m + y.d
    ELSE x.amount >= y.amount

\* sorted with x put in so as to follow every element that does not come after it
RECURSIVE InsertAfterEquals(_, _, _)
InsertAfterEquals(sorted, x, c) ==
    IF sorted = <<>> THEN <<x>>
    ELSE IF NotAfter(c, Head(sorted), x)
    THEN <<Head(sorted)>> \o InsertAfterEquals(Tail(sorted), x, c)
    ELSE <<x>> \o sorted

\* the first n elements of arr in the order of choice c, equal keys in their
\* order in arr
RECURSIVE StableSort(_, _, _)
StableSort(arr, n, c) ==
    IF n = 0 THEN <<>>
    ELSE InsertAfterEquals(StableSort(arr, n - 1, c), arr[n], c)

IsOrdered(arr, c) ==
    \A a, b \in 1..Len(arr) : a < b => NotAfter(c, arr[a], arr[b])

Occurrences(arr, x) == Cardinality({k \in 1..Len(arr) : arr[k] = x})

SameBag(a, b) ==
    /\ Len(a) = Len(b)
    /\ \A k \in 1..Len(a) : Occurrences(a, a[k]) = Occurrences(b, a[k])

ExpensesOf(store, year, m) ==
    {k \in 1..Len(store) :
        store[k].type = EXPENSE /\ store[k].y = year /\ store[k].m = m}

RECURSIVE SumAmounts(_, _)
SumAmounts(store, ks) ==
    IF ks = {} THEN 0
    ELSE LET k == CHOOSE j \in ks : TRUE
         IN  store[k].amount + SumAmounts(store, ks \ {k})

\* C1: a store built by appends alone comes back unchanged from a save followed
\* by a load: same length, same order, same date, kind, category, amount and note.
\* The empty store does; so the claim is that an append to a store that comes
\* back unchanged gives a store that comes back unchanged.
C1_RoundTrip ==
    [][\A in \in AddInputs :
          (add_transaction(in) /\ out'.msg = "Transaction added." /\ RoundTrips(txs))
              => RoundTrips(txs')]_vars

\* C2: in every reachable state no stored category or note contains '|'.
C2_NoDelimiter ==
    \A k \in 1..Len(txs) : ~HasPipe(txs[k].category) /\ ~HasPipe(txs[k].note)

\* C3: whenever the content of the file changes, it changes to the complete
\* serialization of the store (a reader sees the previous content or that, never
\* less), and "Saved" is printed only with the complete serialization on file.
C3_SaveAtomic ==
    [][/\ file' # file => (file'.exists /\ file'.lines = SerializeAll(txs'))
       /\ (out'.msg = "Saved" /\ pc = "save") => file'.lines = SerializeAll(txs')]_vars

\* C4: a sort by date (choice 1) or by amount (choice 2) leaves the store in the
\* order of its key with equal keys in their order from before the sort.
C4_SortStable ==
    [][\A choice \in SortChoices :
          (sort_menu(choice) /\ txs # <<>>)
              => txs' = StableSort(txs, Len(txs), read_int(choice, 1, 2))]_vars

\* C5: a sort keeps the size and the multiset of the transactions, and the same
\* sort applied again right after a sort leaves the sequence as it is.
C5_SortIdempotent ==
    [][\A choice \in SortChoices :
          (sort_menu(choice) /\ txs # <<>>)
              => /\ SameBag(txs, txs')
                 /\ (out.msg = "Sorted." /\ IsOrdered(txs, read_int(choice, 1, 2)))
                        => txs' = txs]_vars

\* C6: after a successful load the store is, in file order, the records of the
\* first MAX_TRANSACTIONS lines of the file that parse at least six fields with a
\* valid date and an amount >= 0; every other line contributes nothing.
C6_LoadLines ==
    out.msg = "Loaded"
        => /\ Len(txs) = (IF Len(AcceptedLines(file.lines)) > MAX_TRANSACTIONS
                          THEN MAX_TRANSACTIONS ELSE Len(AcceptedLines(file.lines)))
           /\ \A k \in 1..Len(txs) :
                  LET f == LineFields(AcceptedLines(file.lines)[k])
                  IN  /\ txs[k].y = f[1] /\ txs[k].m = f[2] /\ txs[k].d = f[3]
                      /\ txs[k].amount = f[6]

AddMessages ==
    {"Storage full.", "Invalid date.", "Amount must be positive.", "Transaction added."}

\* C7: append on a full store reports CapacityExceeded, with a date that is not
\* a calendar date InvalidDate, with an amount <= 0 InvalidAmount, each leaving
\* the store as it was; otherwise the new transaction is the last one and the
\* earlier ones keep their values and positions.
C7_Append ==
    [][\A in \in AddInputs :
          (out'.msg \in AddMessages /\ add_transaction(in)) =>
              LET y == read_int(in.y, 1900, 3000)
                  m == read_int(in.m, 1, 12)
                  d == read_int(in.d, 1, 31)
                  n == Len(txs)
              IN  IF n >= MAX_TRANSACTIONS
                  THEN out'.msg = "Storage full." /\ txs' = txs
                  ELSE IF ~CalendarValid(y, m, d)
                  THEN out'.msg = "Invalid date." /\ txs' = txs
                  ELSE IF read_double(in.amount, 0) <= 0
                  THEN out'.msg = "Amount must be positive." /\ txs' = txs
                  ELSE /\ out'.msg = "Transaction added."
                       /\ Len(txs') = n + 1
                       /\ \A k \in 1..n : txs'[k] = txs[k]
                       /\ txs'[n + 1].y = y /\ txs'[n + 1].m = m /\ txs'[n + 1].d = d
                       /\ txs'[n + 1].type = read_int(in.t, 0, 1)
                       /\ txs'[n + 1].amount = read_double(in.amount, 0)]_vars

\* a full store has refused an append
C7_Witness == out.msg = "Storage full." /\ Len(txs) = MAX_TRANSACTIONS

\* C8: deleting at an index i within 0..size-1 makes the store one shorter,
\* keeps what is below i and moves what is above i down by one; entries outside
\* 0..size-1 remove nothing, and on an empty store nothing changes.
C8_Delete ==
    [][\A typed \in DeleteInputs(Len(txs)) :
          (out'.msg \in {"Deleted.", "No data."} /\ delete_by_index(typed)) =>
              IF txs = <<>> THEN txs' = <<>>
              ELSE LET n == Len(txs)
                       first == CHOOSE k \in 1..Len(typed) :
                                    /\ typed[k] \in 0..(n - 1)
                                    /\ \A j \in 1..(k - 1) : typed[j] \notin 0..(n - 1)
                       i == typed[first]
                   IN  /\ Len(txs') = n - 1
                       /\ \A j \in 0..(i - 1) : txs'[j + 1] = txs[j + 1]
                       /\ \A j \in i..(n - 2) : txs'[j + 1] = txs[j + 2]]_vars

\* a transaction was deleted and others remain
C8_Witness == out.msg = "Deleted." /\ Len(txs) >= 2

\* C9: a chart shows, for each month, the sum of the Expense amounts of that
\* year and month, and is produced whenever the year has an Expense; "no
\* expenses recorded" is reported only when the year has none.
C9_Chart ==
    /\ out.msg = "Chart" =>
          /\ \E m \in 1..12 : ExpensesOf(txs, out.year, m) # {}
          /\ \A m \in 1..12 :
                 out.sums[m] = SumAmounts(txs, ExpensesOf(txs, out.year, m))
    /\ out.msg = "No expenses recorded" =>
          \A m \in 1..12 : ExpensesOf(txs, out.year, m) = {}

StoreWellFormed ==
    /\ Len(txs) >= 0 /\ Len(txs) <= MAX_TRANSACTIONS
    /\ \A k \in 1..Len(txs) :
           /\ CalendarValid(txs[k].y, txs[k].m, txs[k].d)
           /\ txs[k].type \in {INCOME, EXPENSE}
           /\ txs[k].amount >= 0

FailedLoad ==
    \E openOk \in BOOLEAN :
        /\ out'.msg \in {"Welcome!", "Load failed."}
        /\ ~(file.exists /\ openOk)
        /\ (main(openOk) \/ menu_load(openOk))

\* C10: in every reachable state the store holds at most MAX_TRANSACTIONS
\* transactions, each with a calendar date, a kind that is Income or Expense and
\* an amount >= 0; a load that cannot open the file leaves the store as it was.
C10_StoreValid == []StoreWellFormed /\ [][FailedLoad => txs' = txs]_vars

\* a load has failed with transactions in the store
C10_Witness == out.msg = "Load failed." /\ Len(txs) > 0

====
